---- MODULE Spec2Model ----
(***************************************************************************)
(* Model of challawa_app.py: the DualPumpMonitor supervisor (connect,      *)
(* disconnect, read_db39), its sampling loop (monitor_loop), the request   *)
(* handlers that share the monitor (get_status, handle_connect), stop(),   *)
(* and the trip_events store (log_trip_event).                             *)
(*                                                                         *)
(* Scheduling.  The program runs under eventlet (lines 7-8): the sampler   *)
(* thread and every request handler are green threads, and control passes  *)
(* from one to another only inside a blocking call.  The blocking calls of *)
(* the modelled code are the three client operations that talk to the      *)
(* controller (plc.connect, plc.disconnect, plc.db_read), socketio.emit    *)
(* and time.sleep.  A process whose pc is one of these calls is suspended  *)
(* in it; everything between two such calls is one atomic action.  The     *)
(* sampler also has labels inside an atomic stretch ("while", "read",      *)
(* "process"); no other process may step while the sampler is at one.      *)
(*                                                                         *)
(* Environment.  The outcome of every client call, of every store write    *)
(* and of every emit is chosen nondeterministically among returning        *)
(* normally and raising.                                                   *)
(***************************************************************************)
EXTENDS Integers, Sequences, FiniteSets, TLC

\* ------------------------------------------------------------------ bounds
\* successful reads the sampling loop may make (caps read_count)
MaxReads == 2
\* successful reads of the sampling loop when it runs on its own
MaxFrames == 6
\* successful reads of the sampling loop when it runs over every block
MaxData == 2
\* last second the wall clock reaches
MaxTime == 1
\* successful reads of the sampling loop when the controller recovers
MaxLive == 2
\* seconds in a day of the model
DayLength == 2
\* successful reads of the sampling loop when the reports are queried
MaxStore == 2
\* rows of the longest event table the program starts with
MaxTrips == 31
\* rows of the event tables the program starts with that mix the two pumps
MaxMixed == 3
\* rows of the event tables the program starts with when events are queried
MaxRows == 2
\* last second in which a row of those tables was recorded
MaxStamp == 3
\* successful reads of the sampling loop before the session breaks for good
MaxBroken == 1
\* successful reads of the sampling loop when the stored frame is read
MaxDebug == 1

\* --------------------------------------------------------------- constants
\* a threshold of two failures
max_read_errors_minus_one == 3 - 1

\* a threshold that lets one more failure through
max_read_errors_plus_one == 3 + 1

\* self.max_read_errors
max_read_errors == 3

VARIABLES
    connected,          \* self.connected
    running,            \* self.running
    prev_pump1_trip,    \* self.prev_pump1_trip
    prev_pump2_trip,    \* self.prev_pump2_trip
    read_error_count,   \* self.read_error_count
    last_data,          \* self.last_data
    read_count,         \* self.read_count
    plc_connected,      \* what self.plc.get_connected() reports
    trip_events,        \* rows of table trip_events, in rowid order
    now,                \* wall clock, in seconds
    pc,                 \* position of each process
    data,               \* the frame a process holds (local `data`, emit argument)
    ev,                 \* the step just taken (what an observer of the calls sees)
    \* history variables: they record what has happened and steer nothing
    published,          \* emits called in the sampler's current iteration
    consec_fails,       \* reads that raised since the last good read or connect
    raised_as,          \* for a read whose forced disconnect is in flight: the
                        \* number its failure had among the consecutive ones
    third_returned,     \* the third consecutive failed read has just returned
    scenario,           \* progress through: third failure, connect, good read
    seen_trip,          \* trip flags of the last connected frame the loop processed
    edges,              \* rising edges of each trip flag over the processed frames
    pattern,            \* how much of TripPattern the processed frames have matched
    outage,             \* since the last connected frame the loop processed: 0 nothing,
                        \* 1 an error frame or a failed connect, 2 a forced disconnect
    carried,            \* the frame just processed held a trip over such an outage
    ffsff               \* progress of the reads through fail, fail, success, fail, fail

vars == << connected, running, prev_pump1_trip, prev_pump2_trip, read_error_count,
           last_data, read_count, plc_connected, trip_events, now, pc, data,
           ev, published, consec_fails, raised_as, third_returned, scenario,
           seen_trip, edges, pattern, outage, carried, ffsff >>

Sampler == "sampler"
Query == "query"
Subscriber == "subscriber"
Stopper == "stop"
Procs == {Sampler, Query, Subscriber, Stopper}

\* Python's None
None == [none |-> TRUE]

\* --------------------------------------------------------- controller data
\* A 28-byte block of DB39 is given by the two flag bytes (offsets 0 and 14)
\* and the six REAL fields (offsets 2, 6, 10, 16, 20, 24).  A REAL is held in
\* thousandths (1234 is 1.234).
RealSamples ==
    << << 2125, 3000, 1450, 4006, 4500, 987 >>,
       << 1234, 3500, 876, 2349, 4000, 1501 >> >>

Block(b0, b14, s) ==
    (0 :> b0) @@ (14 :> b14) @@
    (2 :> RealSamples[s][1]) @@ (6 :> RealSamples[s][2]) @@ (10 :> RealSamples[s][3]) @@
    (16 :> RealSamples[s][4]) @@ (20 :> RealSamples[s][5]) @@ (24 :> RealSamples[s][6])

\* the blocks the controller may hold when it is read
Blocks ==
    { Block(b0, 0, 1) : b0 \in {0, 2, 4, 6, 8, 10, 12, 14} }
    \cup { Block(0, b14, 2) : b14 \in {1, 2, 4, 7} }
    \cup { Block(8, 4, 2), Block(9, 5, 1), Block(241, 248, 1) }

\* four of them, one for each combination of the two trip flags
TripBlocks == { Block(2, 2, 1), Block(12, 1, 2), Block(4, 5, 1), Block(10, 6, 2) }

\* two of them: no device tripped, both devices tripped
PairBlocks == { Block(2, 2, 1), Block(10, 6, 2) }

\* a get_bool that numbers the bits of a byte from its most significant bit
get_bool_msb(bytes, byte_index, bool_index) ==
    (bytes[byte_index] \div (2 ^ (7 - bool_index))) % 2 = 1

\* snap7.util.get_bool(data, byte_index, bool_index)
get_bool(bytes, byte_index, bool_index) ==
    (bytes[byte_index] \div (2 ^ bool_index)) % 2 = 1

\* snap7.util.get_real(data, byte_index): the REAL stored at that offset
get_real(bytes, byte_index) == bytes[byte_index]

\* Python round(x, 2) of a value in thousandths; the result is in thousandths
\* too (a multiple of 10); an exact tie goes to the even hundredth.
round2(x) ==
    LET q == x \div 10
        r == x % 10
    IN  IF r < 5 THEN q * 10
        ELSE IF r > 5 THEN (q + 1) * 10
        ELSE IF q % 2 = 0 THEN q * 10 ELSE (q + 1) * 10

\* a _get_status that tests the running flag before the trip flag
_get_status_running_first(ready, is_running, trip) ==
    IF is_running THEN "RUNNING"
    ELSE IF trip THEN "TRIP"
    ELSE IF ready THEN "READY"
    ELSE "UNKNOWN"

\* DualPumpMonitor._get_status
_get_status(ready, is_running, trip) ==
    IF trip THEN "TRIP"
    ELSE IF is_running THEN "RUNNING"
    ELSE IF ready THEN "READY"
    ELSE "UNKNOWN"

\* an error frame whose devices carry no ERROR status
_get_error_data_unknown ==
    [ alarm |-> FALSE,
      pump1 |-> [ ready |-> FALSE, running |-> FALSE, trip |-> FALSE,
                  pressure |-> 0, pressure_setpoint |-> 0, speed |-> 0,
                  status |-> "UNKNOWN" ],
      pump2 |-> [ ready |-> FALSE, running |-> FALSE, trip |-> FALSE,
                  pressure |-> 0, pressure_setpoint |-> 0, speed |-> 0,
                  status |-> "UNKNOWN" ],
      connected |-> FALSE ]

\* DualPumpMonitor._get_error_data
_get_error_data ==
    [ alarm |-> FALSE,
      pump1 |-> [ ready |-> FALSE, running |-> FALSE, trip |-> FALSE,
                  pressure |-> 0, pressure_setpoint |-> 0, speed |-> 0,
                  status |-> "ERROR" ],
      pump2 |-> [ ready |-> FALSE, running |-> FALSE, trip |-> FALSE,
                  pressure |-> 0, pressure_setpoint |-> 0, speed |-> 0,
                  status |-> "ERROR" ],
      connected |-> FALSE ]

\* a frame of a read whose device 2 carries the status of the error frame
parse_db39_error_status(bytes) ==
    LET pump1_ready == get_bool(bytes, 0, 1)
        pump1_running == get_bool(bytes, 0, 2)
        pump1_trip == get_bool(bytes, 0, 3)
    IN  [ alarm |-> get_bool(bytes, 0, 0),
          pump1 |-> [ ready |-> pump1_ready, running |-> pump1_running,
                      trip |-> pump1_trip,
                      pressure |-> round2(get_real(bytes, 2)),
                      pressure_setpoint |-> round2(get_real(bytes, 6)),
                      speed |-> round2(get_real(bytes, 10)),
                      status |-> _get_status(pump1_ready, pump1_running, pump1_trip) ],
          pump2 |-> [ ready |-> get_bool(bytes, 14, 1),
                      running |-> get_bool(bytes, 14, 0),
                      trip |-> get_bool(bytes, 14, 2),
                      pressure |-> round2(get_real(bytes, 16)),
                      pressure_setpoint |-> round2(get_real(bytes, 20)),
                      speed |-> round2(get_real(bytes, 24)),
                      status |-> "ERROR" ],
          connected |-> TRUE ]

\* read_db39, lines 200-242: the frame built from the bytes db_read returned
parse_db39(bytes) ==
    LET alarm == get_bool(bytes, 0, 0)
        pump1_ready == get_bool(bytes, 0, 1)
        pump1_running == get_bool(bytes, 0, 2)
        pump1_trip == get_bool(bytes, 0, 3)
        pump1_pressure == get_real(bytes, 2)
        pump1_pressure_sp == get_real(bytes, 6)
        pump1_speed == get_real(bytes, 10)
        pump2_running == get_bool(bytes, 14, 0)
        pump2_ready == get_bool(bytes, 14, 1)
        pump2_trip == get_bool(bytes, 14, 2)
        pump2_pressure == get_real(bytes, 16)
        pump2_pressure_sp == get_real(bytes, 20)
        pump2_speed == get_real(bytes, 24)
    IN  [ alarm |-> alarm,
          pump1 |-> [ ready |-> pump1_ready, running |-> pump1_running,
                      trip |-> pump1_trip,
                      pressure |-> round2(pump1_pressure),
                      pressure_setpoint |-> round2(pump1_pressure_sp),
                      speed |-> round2(pump1_speed),
                      status |-> _get_status(pump1_ready, pump1_running, pump1_trip) ],
          pump2 |-> [ ready |-> pump2_ready, running |-> pump2_running,
                      trip |-> pump2_trip,
                      pressure |-> round2(pump2_pressure),
                      pressure_setpoint |-> round2(pump2_pressure_sp),
                      speed |-> round2(pump2_speed),
                      status |-> _get_status(pump2_ready, pump2_running, pump2_trip) ],
          connected |-> TRUE ]

\* ------------------------------------------------------------- supervisor
\* The supervisor's operations are written as functions from the fields they
\* read and write (a record c: connected, read_error_count, plc_connected) to
\* the set of their possible outcomes, one per outcome of the client calls
\* they make.  An operation that makes a blocking client call is cut at that
\* call: the part before it ends with the call in flight, the part after it
\* starts with the call's outcome.
Core ==
    [ connected |-> connected,
      read_error_count |-> read_error_count,
      plc_connected |-> plc_connected ]

\* disconnect(), lines 179-181: up to the call of plc.disconnect
disconnect_begin(c) ==
    \* plc.get_connected() raises: except, pass
    { [ core |-> c, fly |-> FALSE, tag |-> "get_connected raised" ] }
    \cup
    IF c.plc_connected
    THEN { [ core |-> c, fly |-> TRUE, tag |-> "plc.disconnect called" ] }
    ELSE { [ core |-> [c EXCEPT !.connected = FALSE], fly |-> FALSE,
             tag |-> "returned" ] }

\* disconnect(), lines 181-184: plc.disconnect returns or raises
disconnect_end(c) ==
    { [ core |-> [c EXCEPT !.plc_connected = FALSE, !.connected = FALSE],
        tag |-> "returned" ] }
    \cup
    { [ core |-> [c EXCEPT !.plc_connected = s], tag |-> "plc.disconnect raised" ]
      : s \in {c.plc_connected, FALSE} }

\* a connect that goes to plc.connect whatever the client reports
connect_begin_no_close(c) ==
    { [ core |-> [c EXCEPT !.connected = FALSE], next |-> "ret", result |-> FALSE,
        tag |-> "get_connected raised" ] }
    \cup
    { [ core |-> c, next |-> "c_conn", result |-> FALSE,
        tag |-> "plc.connect called" ] }

\* connect(), lines 163-167: up to the first blocking client call
connect_begin(c) ==
    { [ core |-> [c EXCEPT !.connected = FALSE], next |-> "ret", result |-> FALSE,
        tag |-> "get_connected raised" ] }
    \cup
    IF c.plc_connected
    THEN { [ core |-> c, next |-> "c_disc", result |-> FALSE,
             tag |-> "plc.disconnect called" ] }
    ELSE { [ core |-> c, next |-> "c_conn", result |-> FALSE,
             tag |-> "plc.connect called" ] }

\* connect(), lines 166-167 and 173-176: plc.disconnect returns or raises
connect_disc_end(c) ==
    { [ core |-> [c EXCEPT !.plc_connected = FALSE], next |-> "c_conn",
        result |-> FALSE, tag |-> "session closed, plc.connect called" ] }
    \cup
    { [ core |-> [c EXCEPT !.plc_connected = s, !.connected = FALSE],
        next |-> "ret", result |-> FALSE, tag |-> "plc.disconnect raised" ]
      : s \in {c.plc_connected, FALSE} }

\* connect(), lines 167-176: plc.connect returns (with a session or without
\* one) or raises
connect_conn_end(c) ==
    \* a session is open and get_connected() says so
    { [ core |-> [c EXCEPT !.plc_connected = TRUE, !.connected = TRUE,
                           !.read_error_count = 0],
        next |-> "ret", result |-> TRUE, tag |-> "returned True" ] }
    \cup
    \* a session is open and get_connected() raises
    { [ core |-> [c EXCEPT !.plc_connected = TRUE, !.connected = FALSE],
        next |-> "ret", result |-> FALSE, tag |-> "get_connected raised" ] }
    \cup
    \* plc.connect returns and no session is open: connected = get_connected()
    { [ core |-> [c EXCEPT !.connected = c.plc_connected,
                           !.read_error_count =
                               IF c.plc_connected THEN 0 ELSE c.read_error_count],
        next |-> "ret", result |-> c.plc_connected,
        tag |-> IF c.plc_connected THEN "returned True" ELSE "returned False" ] }
    \cup
    { [ core |-> [c EXCEPT !.connected = FALSE],
        next |-> "ret", result |-> FALSE, tag |-> "plc.connect raised" ] }

\* an except branch that counts the failure and never forces a disconnect
read_db39_except_counts_only(c) ==
    { [ core |-> [c EXCEPT !.read_error_count = c.read_error_count + 1],
        next |-> "ret", frame |-> _get_error_data, tag |-> "raised: counted" ] }

\* read_db39(), lines 243-254: the except branch
read_db39_except(c) ==
    LET n == c.read_error_count + 1
        c1 == [c EXCEPT !.read_error_count = n]
    IN  IF n >= max_read_errors
        THEN { IF d.fly
               THEN [ core |-> d.core, next |-> "rd_disc", frame |-> None,
                      tag |-> "raised: plc.disconnect called" ]
               ELSE [ core |-> [d.core EXCEPT !.connected = FALSE,
                                              !.read_error_count = 0],
                      next |-> "ret", frame |-> _get_error_data,
                      tag |-> "raised: forced" ]
               : d \in disconnect_begin(c1) }
        ELSE { [ core |-> c1, next |-> "ret", frame |-> _get_error_data,
                 tag |-> "raised: counted" ] }

\* a read_db39 that counts a missing session as a failed read
read_db39_begin_counts_no_session(c) ==
    read_db39_except(c)
    \cup
    IF c.plc_connected
    THEN { [ core |-> c, next |-> "db_read", frame |-> None,
             tag |-> "db_read called" ] }
    ELSE { [ core |-> [c EXCEPT !.connected = FALSE,
                                !.read_error_count = c.read_error_count + 1],
             next |-> "ret", frame |-> _get_error_data, tag |-> "no session" ] }

\* read_db39(), lines 188-195: up to the call of plc.db_read
read_db39_begin(c) ==
    \* plc.get_connected() raises
    read_db39_except(c)
    \cup
    IF c.plc_connected
    THEN { [ core |-> c, next |-> "db_read", frame |-> None,
             tag |-> "db_read called" ] }
    ELSE { [ core |-> [c EXCEPT !.connected = FALSE], next |-> "ret",
             frame |-> _get_error_data, tag |-> "no session" ] }

\* a read that returns a block and leaves the error counter as it is
read_db39_end_keeps_count(c, blocks) ==
    { [ core |-> c, next |-> "ret", frame |-> parse_db39(b), tag |-> "read ok",
        bytes |-> b ]
      : b \in IF c.plc_connected THEN blocks ELSE {} }
    \cup
    UNION { read_db39_except([c EXCEPT !.plc_connected = s])
            : s \in {c.plc_connected, FALSE} }

\* read_db39(), lines 195-254: plc.db_read returns one of `blocks` (only on a
\* live session) or raises (the session may be lost with it); `bytes` is the
\* block it returned
read_db39_end(c, blocks) ==
    { [ core |-> [c EXCEPT !.read_error_count = 0], next |-> "ret",
        frame |-> parse_db39(b), tag |-> "read ok", bytes |-> b ]
      : b \in IF c.plc_connected THEN blocks ELSE {} }
    \cup
    UNION { read_db39_except([c EXCEPT !.plc_connected = s])
            : s \in {c.plc_connected, FALSE} }

\* a forced disconnect that leaves the error counter at the threshold
read_db39_disc_end_keeps_count(c) ==
    { [ core |-> [d.core EXCEPT !.connected = FALSE],
        next |-> "ret", frame |-> _get_error_data, tag |-> "forced" ]
      : d \in disconnect_end(c) }

\* read_db39(), lines 250-254: the forced plc.disconnect returns or raises
read_db39_disc_end(c) ==
    { [ core |-> [d.core EXCEPT !.connected = FALSE, !.read_error_count = 0],
        next |-> "ret", frame |-> _get_error_data, tag |-> "forced" ]
      : d \in disconnect_end(c) }

\* ------------------------------------------------------------------ store
\* self.pump_names
pump_names == (1 :> "LINE 7 MIXER") @@ (2 :> "LINE 7 AHU/SYRUP ROOM")

\* a write that leaves the new row as the only row of the table
log_trip_event_replacing(rows, ts, pump_id, pump_name, event_type, pressure, speed, description) ==
    << [ id |-> Len(rows) + 1, timestamp |-> ts, pump_name |-> pump_name,
         pump_id |-> pump_id, event_type |-> event_type,
         pressure |-> pressure, speed |-> speed,
         description |-> description ] >>

\* log_trip_event: the INSERT; id is the AUTOINCREMENT key, timestamp is
\* datetime.now() to the second
log_trip_event(rows, ts, pump_id, pump_name, event_type, pressure, speed, description) ==
    Append(rows, [ id |-> Len(rows) + 1, timestamp |-> ts, pump_name |-> pump_name,
                   pump_id |-> pump_id, event_type |-> event_type,
                   pressure |-> pressure, speed |-> speed,
                   description |-> description ])

\* A value that may be missing (SQL NULL, Python None, an absent request
\* argument) is << >> when missing and << v >> when it is v.
Null == << >>
Val(v) == << v >>

\* Timestamps are seconds; the text 'YYYY-MM-DD HH:MM:SS' orders as they do.
\* A date 'YYYY-MM-DD' is a day number; as text it sorts just before the
\* first second of its day, and date + ' 23:59:59' is the last second of it.
StartOfDay(d) == d * DayLength
EndOfDay(d) == d * DayLength + (DayLength - 1)

\* `if x:` for a missing-or-number argument: None, '' and 0 are false
Truthy(a) == a # Null /\ a # Val(0)

\* `if x:` for a missing-or-date argument: None and '' (both Null here) are
\* false, every date is true
TruthyDate(a) == a # Null

\* the permutations of 1..n, as sequences
Perms(n) == { f \in [1..n -> 1..n] : \A i, j \in 1..n : i # j => f[i] # f[j] }

\* get_trip_events: the rows the WHERE clause keeps, in any order ORDER BY
\* timestamp DESC allows (rows of one second come in no promised order)
get_trip_events(rows, start_date, end_date, pump_id) ==
    LET keep == { i \in 1..Len(rows) :
                    /\ TruthyDate(start_date) =>
                          rows[i].timestamp >= StartOfDay(start_date[1])
                    /\ TruthyDate(end_date) =>
                          rows[i].timestamp <= EndOfDay(end_date[1])
                    /\ Truthy(pump_id) => rows[i].pump_id = pump_id[1] }
        picked == SelectSeq([i \in 1..Len(rows) |-> i], LAMBDA i : i \in keep)
        n == Len(picked)
    IN  { [k \in 1..n |-> rows[picked[f[k]]]] :
            f \in { g \in Perms(n) :
                      \A k \in 1..(n - 1) :
                          rows[picked[g[k]]].timestamp >=
                              rows[picked[g[k + 1]]].timestamp } }

max(a, b) == IF a >= b THEN a ELSE b

\* a score that is not floored at 0
health_score_unfloored(trip_count) == 100 - (trip_count * 5)

\* get_pump_health_stats, line 134
health_score(trip_count) == max(0, 100 - (trip_count * 5))

\* statistics over all the rows, whatever their device
trip_stats_ungrouped(rows) ==
    LET trips == { i \in 1..Len(rows) : rows[i].event_type = "TRIP" }
    IN  { [ pump_id |-> d,
            trip_count |-> Cardinality(trips),
            last_trip |-> CHOOSE t \in { rows[i].timestamp : i \in trips } :
                              \A i \in trips : rows[i].timestamp <= t ]
          : d \in { rows[i].pump_id : i \in trips } }

\* get_pump_health_stats, lines 112-117: SELECT pump_id, COUNT(*), MAX(timestamp)
\* FROM trip_events WHERE event_type = 'TRIP' GROUP BY pump_id
trip_stats(rows) ==
    LET trips == { i \in 1..Len(rows) : rows[i].event_type = "TRIP" }
    IN  { [ pump_id |-> d,
            trip_count |-> Cardinality({ i \in trips : rows[i].pump_id = d }),
            last_trip |-> CHOOSE t \in { rows[i].timestamp :
                                           i \in { j \in trips : rows[j].pump_id = d } } :
                              \A i \in trips : rows[i].pump_id = d => rows[i].timestamp <= t ]
          : d \in { rows[i].pump_id : i \in trips } }

\* get_pump_health_stats, lines 120-144: one record for pump 1, then one for
\* pump 2
get_pump_health_stats(rows) ==
    LET stats == trip_stats(rows)
    IN  [ k \in 1..2 |->
            IF \E st \in stats : st.pump_id = k
            THEN LET pump_stat == CHOOSE st \in stats : st.pump_id = k
                 IN  [ pump_id |-> k, pump_name |-> pump_names[k],
                       total_trips |-> pump_stat.trip_count,
                       last_trip |-> Val(pump_stat.last_trip),
                       health_score |-> health_score(pump_stat.trip_count) ]
            ELSE [ pump_id |-> k, pump_name |-> pump_names[k], total_trips |-> 0,
                   last_trip |-> Null, health_score |-> 100 ] ]

\* outcomes of a store write, of an emit
CallOutcomes == {"ok", "raise"}

\* an edge test that looks at the level of the flag only
trip_level(trip, prev_trip) == trip

\* monitor_loop, lines 316 and 322: the rising-edge test
trip_edge(trip, prev_trip) == trip /\ ~prev_trip

\* every frame taken for valid data
valid_data_always(f) == TRUE

\* monitor_loop, line 309: the frame is valid data
valid_data(f) == f.connected

\* a check that updates the previous states before it writes to the store
check_trips_memory_first(f, rows, prev1, prev2, ts, w1, w2) ==
    LET edge1 == trip_edge(f.pump1.trip, prev1)
        edge2 == trip_edge(f.pump2.trip, prev2)
        rows1 == IF edge1
                 THEN log_trip_event(rows, ts, 1, pump_names[1], "TRIP",
                                     f.pump1.pressure, f.pump1.speed,
                                     "Pump 1 tripped - fault detected")
                 ELSE rows
        rows2 == IF edge2
                 THEN log_trip_event(rows1, ts, 2, pump_names[2], "TRIP",
                                     f.pump2.pressure, f.pump2.speed,
                                     "Pump 2 tripped - fault detected")
                 ELSE rows1
    IN  [ trip_events |-> IF edge1 /\ w1 = "raise" THEN rows
                          ELSE IF edge2 /\ w2 = "raise" THEN rows1 ELSE rows2,
          prev_pump1_trip |-> f.pump1.trip,
          prev_pump2_trip |-> f.pump2.trip,
          alive |-> ~((edge1 /\ w1 = "raise") \/ (edge2 /\ w2 = "raise")) ]

\* a check that tests the edge of pump 2 against the memory of pump 1
check_trips_shared_memory(f, rows, prev1, prev2, ts, w1, w2) ==
    LET edge1 == trip_edge(f.pump1.trip, prev1)
        edge2 == trip_edge(f.pump2.trip, prev1)
        rows1 == IF edge1
                 THEN log_trip_event(rows, ts, 1, pump_names[1], "TRIP",
                                     f.pump1.pressure, f.pump1.speed,
                                     "Pump 1 tripped - fault detected")
                 ELSE rows
        rows2 == IF edge2
                 THEN log_trip_event(rows1, ts, 2, pump_names[2], "TRIP",
                                     f.pump2.pressure, f.pump2.speed,
                                     "Pump 2 tripped - fault detected")
                 ELSE rows1
    IN  IF edge1 /\ w1 = "raise"
        THEN [ trip_events |-> rows, prev_pump1_trip |-> prev1,
               prev_pump2_trip |-> prev2, alive |-> FALSE ]
        ELSE IF edge2 /\ w2 = "raise"
        THEN [ trip_events |-> rows1, prev_pump1_trip |-> prev1,
               prev_pump2_trip |-> prev2, alive |-> FALSE ]
        ELSE [ trip_events |-> rows2, prev_pump1_trip |-> f.pump1.trip,
               prev_pump2_trip |-> f.pump2.trip, alive |-> TRUE ]

\* monitor_loop, lines 315-331, for a frame f with connected = True: the two
\* edge tests with their store writes (outcomes w1, w2), then the update of the
\* previous states.  A store write that raises leaves monitor_loop (alive is
\* FALSE): nothing in the loop catches it.
check_trips(f, rows, prev1, prev2, ts, w1, w2) ==
    LET edge1 == trip_edge(f.pump1.trip, prev1)
        edge2 == trip_edge(f.pump2.trip, prev2)
        rows1 == IF edge1
                 THEN log_trip_event(rows, ts, 1, pump_names[1], "TRIP",
                                     f.pump1.pressure, f.pump1.speed,
                                     "Pump 1 tripped - fault detected")
                 ELSE rows
        rows2 == IF edge2
                 THEN log_trip_event(rows1, ts, 2, pump_names[2], "TRIP",
                                     f.pump2.pressure, f.pump2.speed,
                                     "Pump 2 tripped - fault detected")
                 ELSE rows1
    IN  IF edge1 /\ w1 = "raise"
        THEN [ trip_events |-> rows, prev_pump1_trip |-> prev1,
               prev_pump2_trip |-> prev2, alive |-> FALSE ]
        ELSE IF edge2 /\ w2 = "raise"
        THEN [ trip_events |-> rows1, prev_pump1_trip |-> prev1,
               prev_pump2_trip |-> prev2, alive |-> FALSE ]
        ELSE [ trip_events |-> rows2, prev_pump1_trip |-> f.pump1.trip,
               prev_pump2_trip |-> f.pump2.trip, alive |-> TRUE ]

\* -------------------------------------------------------------- processes
\* labels at which a process is suspended in a blocking call (or has ended)
YieldLabels ==
    { "c_disc", "c_conn", "sleep_reconnect", "db_read", "rd_disc", "emit",
      "sleep", "exit", "dead" }

\* the sampler is suspended: another green thread may run
SamplerYields == pc[Sampler] \in YieldLabels

\* the web server accepts requests: after start(), until stop() is called
Serving == SamplerYields /\ pc[Stopper] = "idle"

SetCore(c) ==
    /\ connected' = c.connected
    /\ read_error_count' = c.read_error_count
    /\ plc_connected' = c.plc_connected

Step(p, op, out, frame) == [ proc |-> p, op |-> op, out |-> out, frame |-> frame ]

\* where a process goes on when read_db39 has returned to it
AfterRead == (Sampler :> "process") @@ (Query :> "idle") @@ (Subscriber :> "h_emit")

\* read_db39 has got to outcome o in process p; the step of a read that
\* returned a block records the bytes of the block next to the frame
ReadOutcome(p, o) ==
    /\ SetCore(o.core)
    /\ pc' = [pc EXCEPT ![p] = IF o.next = "ret" THEN AfterRead[p] ELSE o.next]
    /\ data' = IF o.next = "ret" /\ p \in DOMAIN data
               THEN [data EXCEPT ![p] = o.frame] ELSE data
    /\ ev' = IF "bytes" \in DOMAIN o
             THEN [ proc |-> p, op |-> "read_db39", out |-> o.tag,
                    frame |-> o.frame, bytes |-> o.bytes ]
             ELSE Step(p, "read_db39", o.tag, o.frame)

\* a monitor whose previous-trip memory starts as true
InitTripped ==
    /\ connected = FALSE
    /\ running = FALSE
    /\ prev_pump1_trip = TRUE
    /\ prev_pump2_trip = TRUE
    /\ read_error_count = 0
    /\ last_data = None
    /\ read_count = 0
    /\ plc_connected = FALSE
    /\ trip_events = << >>
    /\ now = 0
    /\ pc = (Sampler :> "init") @@ (Query :> "idle") @@ (Subscriber :> "idle")
            @@ (Stopper :> "idle")
    /\ data = (Sampler :> None) @@ (Subscriber :> None)
    /\ ev = Step("main", "init", "", None)
    /\ published = 0
    /\ consec_fails = 0
    /\ raised_as = (Sampler :> 0) @@ (Query :> 0) @@ (Subscriber :> 0)
    /\ third_returned = FALSE
    /\ scenario = 0
    /\ seen_trip = (1 :> FALSE) @@ (2 :> FALSE)
    /\ edges = (1 :> 0) @@ (2 :> 0)
    /\ pattern = 0
    /\ outage = 0
    /\ carried = 0
    /\ ffsff = 0

Init ==
    /\ connected = FALSE
    /\ running = FALSE
    /\ prev_pump1_trip = FALSE
    /\ prev_pump2_trip = FALSE
    /\ read_error_count = 0
    /\ last_data = None
    /\ read_count = 0
    /\ plc_connected = FALSE
    /\ trip_events = << >>
    /\ now = 0
    /\ pc = (Sampler :> "init") @@ (Query :> "idle") @@ (Subscriber :> "idle")
            @@ (Stopper :> "idle")
    /\ data = (Sampler :> None) @@ (Subscriber :> None)
    /\ ev = Step("main", "init", "", None)
    /\ published = 0
    /\ consec_fails = 0
    /\ raised_as = (Sampler :> 0) @@ (Query :> 0) @@ (Subscriber :> 0)
    /\ third_returned = FALSE
    /\ scenario = 0
    /\ seen_trip = (1 :> FALSE) @@ (2 :> FALSE)
    /\ edges = (1 :> 0) @@ (2 :> 0)
    /\ pattern = 0
    /\ outage = 0
    /\ carried = 0
    /\ ffsff = 0

\* start(), lines 341-344
start ==
    /\ pc[Sampler] = "init"
    /\ running' = TRUE
    /\ pc' = [pc EXCEPT ![Sampler] = "while"]
    /\ ev' = Step("main", "start", "", None)
    /\ UNCHANGED << connected, prev_pump1_trip, prev_pump2_trip, read_error_count,
                    last_data, read_count, plc_connected, trip_events, now, data >>

\* a loop that calls connect() in every iteration, connected or not
monitor_loop_while_always_connects ==
    /\ pc[Sampler] = "while"
    /\ IF ~running
       THEN /\ pc' = [pc EXCEPT ![Sampler] = "exit"]
            /\ ev' = Step(Sampler, "monitor_loop", "exit", None)
            /\ UNCHANGED << connected, read_error_count, plc_connected >>
       ELSE \E o \in connect_begin(Core) :
               /\ SetCore(o.core)
               /\ pc' = [pc EXCEPT ![Sampler] =
                            IF o.next = "ret" THEN "sleep_reconnect" ELSE o.next]
               /\ ev' = Step(Sampler, "connect", o.tag, None)
    /\ UNCHANGED << running, prev_pump1_trip, prev_pump2_trip, last_data, read_count,
                    trip_events, now, data >>

\* monitor_loop, lines 295-300: the loop test, and connect() up to its first
\* blocking call when the monitor is not connected
monitor_loop_while ==
    /\ pc[Sampler] = "while"
    /\ IF ~running
       THEN /\ pc' = [pc EXCEPT ![Sampler] = "exit"]
            /\ ev' = Step(Sampler, "monitor_loop", "exit", None)
            /\ UNCHANGED << connected, read_error_count, plc_connected >>
       ELSE IF ~connected
       THEN \E o \in connect_begin(Core) :
               /\ SetCore(o.core)
               /\ pc' = [pc EXCEPT ![Sampler] =
                            IF o.next = "ret" THEN "sleep_reconnect" ELSE o.next]
               /\ ev' = Step(Sampler, "connect", o.tag, None)
       ELSE /\ pc' = [pc EXCEPT ![Sampler] = "read"]
            /\ ev' = Step(Sampler, "monitor_loop", "connected", None)
            /\ UNCHANGED << connected, read_error_count, plc_connected >>
    /\ UNCHANGED << running, prev_pump1_trip, prev_pump2_trip, last_data, read_count,
                    trip_events, now, data >>

\* a loop that goes back to its test at once when connect() has failed
monitor_loop_connect_busy ==
    /\ pc[Sampler] \in {"c_disc", "c_conn"}
    /\ \E o \in IF pc[Sampler] = "c_disc" THEN connect_disc_end(Core)
                ELSE connect_conn_end(Core) :
          /\ SetCore(o.core)
          /\ pc' = [pc EXCEPT ![Sampler] =
                       IF o.next # "ret" THEN o.next
                       ELSE IF o.result THEN "read" ELSE "while"]
          /\ ev' = Step(Sampler, "connect", o.tag, None)
    /\ UNCHANGED << running, prev_pump1_trip, prev_pump2_trip, last_data, read_count,
                    trip_events, now, data >>

\* connect() in monitor_loop, lines 166-176 and 297-300: a client call of
\* connect() returns or raises
monitor_loop_connect ==
    /\ pc[Sampler] \in {"c_disc", "c_conn"}
    /\ \E o \in IF pc[Sampler] = "c_disc" THEN connect_disc_end(Core)
                ELSE connect_conn_end(Core) :
          /\ SetCore(o.core)
          /\ pc' = [pc EXCEPT ![Sampler] =
                       IF o.next # "ret" THEN o.next
                       ELSE IF o.result THEN "read" ELSE "sleep_reconnect"]
          /\ ev' = Step(Sampler, "connect", o.tag, None)
    /\ UNCHANGED << running, prev_pump1_trip, prev_pump2_trip, last_data, read_count,
                    trip_events, now, data >>

\* monitor_loop, lines 302-303: read_db39() up to its blocking call
monitor_loop_read ==
    /\ pc[Sampler] = "read"
    /\ IF connected
       THEN \E o \in read_db39_begin(Core) : ReadOutcome(Sampler, o)
       ELSE /\ pc' = [pc EXCEPT ![Sampler] = "sleep"]
            /\ ev' = Step(Sampler, "monitor_loop", "not connected", None)
            /\ UNCHANGED << connected, read_error_count, plc_connected, data >>
    /\ UNCHANGED << running, prev_pump1_trip, prev_pump2_trip, last_data, read_count,
                    trip_events, now >>

\* a read_db39 that takes the trip flags of the frame it returns as the
\* previous states
read_db39_step_updates_memory(p, blocks, cap) ==
    /\ pc[p] \in {"db_read", "rd_disc"}
    /\ p # Sampler => SamplerYields
    /\ \E o \in IF pc[p] = "db_read"
                THEN read_db39_end(Core, IF p = Sampler /\ read_count >= cap
                                         THEN {} ELSE blocks)
                ELSE read_db39_disc_end(Core) :
          /\ ReadOutcome(p, o)
          /\ prev_pump1_trip' = IF o.tag = "read ok" THEN o.frame.pump1.trip
                                ELSE prev_pump1_trip
          /\ prev_pump2_trip' = IF o.tag = "read ok" THEN o.frame.pump2.trip
                                ELSE prev_pump2_trip
    /\ UNCHANGED << running, last_data, read_count, trip_events, now >>

\* read_db39(), in any of its callers: plc.db_read or the forced
\* plc.disconnect returns or raises.  The controller holds one of `blocks`;
\* the sampler gets no block once it has counted `cap` reads.
read_db39_step(p, blocks, cap) ==
    /\ pc[p] \in {"db_read", "rd_disc"}
    /\ p # Sampler => SamplerYields
    /\ \E o \in IF pc[p] = "db_read"
                THEN read_db39_end(Core, IF p = Sampler /\ read_count >= cap
                                         THEN {} ELSE blocks)
                ELSE read_db39_disc_end(Core) :
          ReadOutcome(p, o)
    /\ UNCHANGED << running, prev_pump1_trip, prev_pump2_trip, last_data, read_count,
                    trip_events, now >>

\* a loop that updates the stored frame field by field and has got as far as
\* pump1 when the next blocking call lets the readers in
monitor_loop_process_in_place ==
    /\ pc[Sampler] = "process"
    /\ last_data' = IF last_data = None THEN data[Sampler]
                    ELSE [last_data EXCEPT !.pump1 = data[Sampler].pump1]
    /\ IF valid_data(data[Sampler])
       THEN \E w1, w2 \in CallOutcomes :
               LET r == check_trips(data[Sampler], trip_events, prev_pump1_trip,
                                    prev_pump2_trip, now, w1, w2)
               IN  /\ read_count' = read_count + 1
                   /\ trip_events' = r.trip_events
                   /\ prev_pump1_trip' = r.prev_pump1_trip
                   /\ prev_pump2_trip' = r.prev_pump2_trip
                   /\ pc' = [pc EXCEPT ![Sampler] = IF r.alive THEN "emit" ELSE "dead"]
                   /\ ev' = Step(Sampler, "monitor_loop",
                                 IF r.alive THEN "processed" ELSE "store write raised",
                                 data[Sampler])
       ELSE /\ pc' = [pc EXCEPT ![Sampler] = "emit"]
            /\ ev' = Step(Sampler, "monitor_loop", "error frame", data[Sampler])
            /\ UNCHANGED << read_count, trip_events, prev_pump1_trip, prev_pump2_trip >>
    /\ UNCHANGED << connected, running, read_error_count, plc_connected, now, data >>

\* monitor_loop, lines 306-335: store the frame, count it, log trip edges,
\* update the previous states, call emit
monitor_loop_process ==
    /\ pc[Sampler] = "process"
    /\ last_data' = data[Sampler]
    /\ IF valid_data(data[Sampler])
       THEN \E w1, w2 \in CallOutcomes :
               LET r == check_trips(data[Sampler], trip_events, prev_pump1_trip,
                                    prev_pump2_trip, now, w1, w2)
               IN  /\ read_count' = read_count + 1
                   /\ trip_events' = r.trip_events
                   /\ prev_pump1_trip' = r.prev_pump1_trip
                   /\ prev_pump2_trip' = r.prev_pump2_trip
                   /\ pc' = [pc EXCEPT ![Sampler] = IF r.alive THEN "emit" ELSE "dead"]
                   /\ ev' = Step(Sampler, "monitor_loop",
                                 IF r.alive THEN "processed" ELSE "store write raised",
                                 data[Sampler])
       ELSE /\ pc' = [pc EXCEPT ![Sampler] = "emit"]
            /\ ev' = Step(Sampler, "monitor_loop", "error frame", data[Sampler])
            /\ UNCHANGED << read_count, trip_events, prev_pump1_trip, prev_pump2_trip >>
    /\ UNCHANGED << connected, running, read_error_count, plc_connected, now, data >>

\* an emit whose exception is not caught: it leaves monitor_loop
monitor_loop_emit_uncaught ==
    /\ pc[Sampler] = "emit"
    /\ \E w \in CallOutcomes :
          /\ ev' = Step(Sampler, "emit", w, data[Sampler])
          /\ pc' = [pc EXCEPT ![Sampler] = IF w = "raise" THEN "dead" ELSE "sleep"]
    /\ UNCHANGED << connected, running, prev_pump1_trip, prev_pump2_trip,
                    read_error_count, last_data, read_count, plc_connected,
                    trip_events, now, data >>

\* monitor_loop, lines 334-339: socketio.emit returns or raises (caught)
monitor_loop_emit ==
    /\ pc[Sampler] = "emit"
    /\ \E w \in CallOutcomes :
          /\ ev' = Step(Sampler, "emit", w, data[Sampler])
    /\ pc' = [pc EXCEPT ![Sampler] = "sleep"]
    /\ UNCHANGED << connected, running, prev_pump1_trip, prev_pump2_trip,
                    read_error_count, last_data, read_count, plc_connected,
                    trip_events, now, data >>

\* monitor_loop, lines 299-300 and 339: time.sleep returns
monitor_loop_sleep ==
    /\ pc[Sampler] \in {"sleep", "sleep_reconnect"}
    /\ pc' = [pc EXCEPT ![Sampler] = "while"]
    /\ ev' = Step(Sampler, "sleep", pc[Sampler], None)
    /\ UNCHANGED << connected, running, prev_pump1_trip, prev_pump2_trip,
                    read_error_count, last_data, read_count, plc_connected,
                    trip_events, now, data >>

\* a status query that reads the controller whatever the connected flag is
get_status_always_reads ==
    /\ pc[Query] = "idle"
    /\ Serving
    /\ \E o \in read_db39_begin(Core) : ReadOutcome(Query, o)
    /\ UNCHANGED << running, prev_pump1_trip, prev_pump2_trip, last_data, read_count,
                    trip_events, now >>

\* get_status, lines 358-361
get_status ==
    /\ pc[Query] = "idle"
    /\ Serving
    /\ IF connected
       THEN \E o \in read_db39_begin(Core) : ReadOutcome(Query, o)
       ELSE /\ ev' = Step(Query, "get_status", "error data", _get_error_data)
            /\ UNCHANGED << connected, read_error_count, plc_connected, pc, data >>
    /\ UNCHANGED << running, prev_pump1_trip, prev_pump2_trip, last_data, read_count,
                    trip_events, now >>

\* handle_connect, lines 375-380
handle_connect ==
    /\ pc[Subscriber] = "idle"
    /\ Serving
    /\ IF connected /\ last_data # None
       THEN /\ data' = [data EXCEPT ![Subscriber] = last_data]
            /\ pc' = [pc EXCEPT ![Subscriber] = "h_emit"]
            /\ ev' = Step(Subscriber, "handle_connect", "last_data", last_data)
            /\ UNCHANGED << connected, read_error_count, plc_connected >>
       ELSE IF connected
       THEN \E o \in read_db39_begin(Core) : ReadOutcome(Subscriber, o)
       ELSE /\ ev' = Step(Subscriber, "handle_connect", "nothing", None)
            /\ UNCHANGED << connected, read_error_count, plc_connected, pc, data >>
    /\ UNCHANGED << running, prev_pump1_trip, prev_pump2_trip, last_data, read_count,
                    trip_events, now >>

\* handle_connect, lines 378 and 380: socketio.emit returns or raises
handle_connect_emit ==
    /\ pc[Subscriber] = "h_emit"
    /\ SamplerYields
    /\ \E w \in CallOutcomes :
          /\ ev' = Step(Subscriber, "emit", w, data[Subscriber])
    /\ data' = [data EXCEPT ![Subscriber] = None]
    /\ pc' = [pc EXCEPT ![Subscriber] = "idle"]
    /\ UNCHANGED << connected, running, prev_pump1_trip, prev_pump2_trip,
                    read_error_count, last_data, read_count, plc_connected,
                    trip_events, now >>

\* stop(), lines 346-348, with disconnect() up to its blocking call
stop ==
    /\ pc[Stopper] = "idle"
    /\ SamplerYields
    /\ running' = FALSE
    /\ \E d \in disconnect_begin(Core) :
          /\ SetCore(d.core)
          /\ pc' = [pc EXCEPT ![Stopper] = IF d.fly THEN "st_disc" ELSE "done"]
          /\ ev' = Step(Stopper, "disconnect", d.tag, None)
    /\ UNCHANGED << prev_pump1_trip, prev_pump2_trip, last_data, read_count,
                    trip_events, now, data >>

\* stop(), line 348: plc.disconnect of disconnect() returns or raises
stop_disconnect ==
    /\ pc[Stopper] = "st_disc"
    /\ SamplerYields
    /\ \E d \in disconnect_end(Core) :
          /\ SetCore(d.core)
          /\ ev' = Step(Stopper, "disconnect", d.tag, None)
    /\ pc' = [pc EXCEPT ![Stopper] = "done"]
    /\ UNCHANGED << running, prev_pump1_trip, prev_pump2_trip, last_data, read_count,
                    trip_events, now, data >>

\* a second of wall-clock time passes, while the processes are suspended
Tick ==
    /\ SamplerYields
    /\ now < MaxTime
    /\ now' = now + 1
    /\ ev' = Step("clock", "tick", "", None)
    /\ UNCHANGED << connected, running, prev_pump1_trip, prev_pump2_trip,
                    read_error_count, last_data, read_count, plc_connected,
                    trip_events, pc, data >>

Reports == "reports"

\* get_events, lines 388-405: the arguments of the request (its dates among
\* `dates`, its pump_id among `pump_ids`), get_trip_events, the rows as JSON
\* objects
get_events(dates, pump_ids) ==
    /\ Serving
    /\ \E start_date, end_date \in dates, pump_id \in pump_ids :
          \E events \in get_trip_events(trip_events, start_date, end_date, pump_id) :
              ev' = Step(Reports, "get_events",
                         << start_date, end_date, pump_id >>, events)
    /\ UNCHANGED << connected, running, prev_pump1_trip, prev_pump2_trip,
                    read_error_count, last_data, read_count, plc_connected,
                    trip_events, now, pc, data >>

\* get_health, lines 408-409
get_health ==
    /\ Serving
    /\ ev' = Step(Reports, "get_health", "", get_pump_health_stats(trip_events))
    /\ UNCHANGED << connected, running, prev_pump1_trip, prev_pump2_trip,
                    read_error_count, last_data, read_count, plc_connected,
                    trip_events, now, pc, data >>

Debug == "debug"

\* get_debug, lines 364-372: the fields of the monitor, as they are
get_debug ==
    /\ Serving
    /\ ev' = Step(Debug, "get_debug", "",
                  [ plc_connected |-> connected, read_count |-> read_count,
                    read_error_count |-> read_error_count,
                    last_data |-> last_data, running |-> running ])
    /\ UNCHANGED << connected, running, prev_pump1_trip, prev_pump2_trip,
                    read_error_count, last_data, read_count, plc_connected,
                    trip_events, now, pc, data >>

\* ------------------------------------------------------ history variables
\* the device-1 trip flags of the sequence false,false,true,true,false,true
TripPattern == << FALSE, FALSE, TRUE, TRUE, FALSE, TRUE >>

TripOf(f, d) == IF d = 1 THEN f.pump1.trip ELSE f.pump2.trip

\* what the step being taken is
ReadRaised ==
    /\ ev'.op = "read_db39"
    /\ ev'.out \in {"raised: counted", "raised: forced", "raised: plc.disconnect called"}
ReadOk == ev'.op = "read_db39" /\ ev'.out = "read ok"
\* a read that raised as the third consecutive one returns
ThirdFailureReturns ==
    \/ /\ ReadRaised /\ connected
       /\ ev'.out \in {"raised: counted", "raised: forced"}
       /\ consec_fails + 1 = 3
    \/ /\ ev'.op = "read_db39" /\ ev'.out = "forced"
       /\ raised_as[ev'.proc] = 3
\* read_db39 calls disconnect() because the counter has reached the threshold
ForcedDisconnect ==
    /\ ev'.op = "read_db39"
    /\ ev'.out \in {"raised: forced", "raised: plc.disconnect called"}
ConnectOk == ev'.op = "connect" /\ ev'.out = "returned True"
ConnectFailed == ev'.op = "connect" /\ pc'[Sampler] = "sleep_reconnect"
Processing == pc[Sampler] = "process" /\ pc'[Sampler] # "process"
ProcessingConnected == Processing /\ data[Sampler].connected

Observe ==
    /\ published' = IF pc[Sampler] = "while" /\ pc'[Sampler] # "while" THEN 0
                    ELSE IF Processing /\ pc'[Sampler] = "emit" THEN published + 1
                    ELSE published
    /\ consec_fails' = IF ReadRaised THEN consec_fails + 1
                       ELSE IF ReadOk \/ ConnectOk THEN 0
                       ELSE consec_fails
    /\ raised_as' =
          IF ev'.op = "read_db39" /\ ev'.out = "raised: plc.disconnect called"
          THEN [raised_as EXCEPT ![ev'.proc] =
                    IF connected THEN consec_fails + 1 ELSE 0]
          ELSE IF ev'.op = "read_db39" /\ ev'.out = "forced"
          THEN [raised_as EXCEPT ![ev'.proc] = 0]
          ELSE raised_as
    /\ third_returned' = ThirdFailureReturns
    /\ scenario' =
          IF ThirdFailureReturns THEN 1
          ELSE IF scenario = 1
          THEN IF ConnectOk THEN 2
               ELSE IF ev'.op \in {"read_db39", "disconnect"} THEN 0
               ELSE 1
          ELSE IF scenario = 2
          THEN IF ev'.proc = Sampler /\ ReadOk THEN 3
               ELSE IF ev'.proc = Sampler /\ ev'.out = "db_read called" THEN 2
               ELSE IF ev'.op = "tick" THEN 2
               ELSE 0
          ELSE 0
    /\ seen_trip' = IF ProcessingConnected
                    THEN [d \in {1, 2} |-> TripOf(data[Sampler], d)]
                    ELSE seen_trip
    /\ edges' = IF ProcessingConnected
                THEN [d \in {1, 2} |->
                        IF TripOf(data[Sampler], d) /\ ~seen_trip[d]
                        THEN edges[d] + 1 ELSE edges[d]]
                ELSE edges
    /\ pattern' = IF ProcessingConnected
                  THEN IF /\ pattern >= 0
                          /\ pattern < Len(TripPattern)
                          /\ TripOf(data[Sampler], 1) = TripPattern[pattern + 1]
                       THEN pattern + 1 ELSE -1
                  ELSE pattern
    /\ outage' = IF ProcessingConnected THEN 0
                 ELSE IF ForcedDisconnect THEN 2
                 ELSE IF (Processing \/ ConnectFailed) /\ outage = 0 THEN 1
                 ELSE outage
    /\ carried' = IF /\ ProcessingConnected
                     /\ \E d \in {1, 2} : seen_trip[d] /\ TripOf(data[Sampler], d)
                  THEN outage ELSE 0
    /\ ffsff' =
          IF ReadRaised
          THEN IF ffsff \in {1, 3, 4} THEN ffsff + 1
               ELSE IF consec_fails = 0 THEN 1 ELSE 0
          ELSE IF ReadOk
          THEN IF ffsff = 2 THEN 3 ELSE 0
          ELSE IF ConnectOk THEN 0
          ELSE ffsff

\* -------------------------------------------------------- specifications
\* The whole program: the sampling loop, the two request handlers and stop(),
\* over the blocks of PairBlocks.
Next ==
    \/ start /\ Observe
    \/ monitor_loop_while /\ Observe
    \/ monitor_loop_connect /\ Observe
    \/ monitor_loop_read /\ Observe
    \/ read_db39_step(Sampler, PairBlocks, MaxReads) /\ Observe
    \/ monitor_loop_process /\ Observe
    \/ monitor_loop_emit /\ Observe
    \/ monitor_loop_sleep /\ Observe
    \/ get_status /\ Observe
    \/ read_db39_step(Query, PairBlocks, MaxReads) /\ Observe
    \/ handle_connect /\ Observe
    \/ read_db39_step(Subscriber, PairBlocks, MaxReads) /\ Observe
    \/ handle_connect_emit /\ Observe
    \/ stop /\ Observe
    \/ stop_disconnect /\ Observe

Spec == Init /\ [][Next]_vars

\* The sampling loop on its own (no request is served, stop() is not called),
\* long enough for the trip sequences the edge detector is specified on.
LoopNext ==
    \/ start /\ Observe
    \/ monitor_loop_while /\ Observe
    \/ monitor_loop_connect /\ Observe
    \/ monitor_loop_read /\ Observe
    \/ read_db39_step(Sampler, TripBlocks, MaxFrames) /\ Observe
    \/ monitor_loop_process /\ Observe
    \/ monitor_loop_emit /\ Observe
    \/ monitor_loop_sleep /\ Observe

LoopSpec == Init /\ [][LoopNext]_vars

\* The sampling loop on its own over every block of Blocks, with the wall
\* clock.
DataNext ==
    \/ start /\ Observe
    \/ monitor_loop_while /\ Observe
    \/ monitor_loop_connect /\ Observe
    \/ monitor_loop_read /\ Observe
    \/ read_db39_step(Sampler, Blocks, MaxData) /\ Observe
    \/ monitor_loop_process /\ Observe
    \/ monitor_loop_emit /\ Observe
    \/ monitor_loop_sleep /\ Observe
    \/ Tick /\ Observe

DataSpec == Init /\ [][DataNext]_vars

\* The sampling loop while the controller recovers: until the clock reaches
\* MaxTime every client call may fail; from then on the controller accepts
\* connects and every read succeeds (store writes and emits may still raise).
\* The monitor thread keeps being scheduled: a call in flight returns, a sleep
\* ends, a step that can be taken is taken.
Healthy == now = MaxTime

\* the outcomes of a connect or a read in which a client call failed
EnvFailures ==
    { "get_connected raised", "plc.connect raised", "plc.disconnect raised",
      "returned False", "raised: counted", "raised: forced",
      "raised: plc.disconnect called" }

HealthyStep == Healthy => ev'.out \notin EnvFailures

LiveLoop ==
    \/ start /\ Observe
    \/ monitor_loop_while /\ HealthyStep /\ Observe
    \/ monitor_loop_connect /\ HealthyStep /\ Observe
    \/ monitor_loop_read /\ HealthyStep /\ Observe
    \/ read_db39_step(Sampler, PairBlocks, MaxLive) /\ HealthyStep /\ Observe
    \/ monitor_loop_process /\ Observe
    \/ monitor_loop_emit /\ Observe
    \/ monitor_loop_sleep /\ Observe

LiveNext ==
    \/ LiveLoop
    \/ Tick /\ read_count < MaxLive /\ Observe

LiveSpec == Init /\ [][LiveNext]_vars /\ WF_vars(LiveLoop)

\* blocks in which one pump is tripped and the other is not
StoreBlocks == { Block(12, 1, 2), Block(4, 5, 1) }

\* The sampling loop, status queries and the two report queries, over the
\* blocks of StoreBlocks.
StoreNext ==
    \/ start /\ Observe
    \/ monitor_loop_while /\ Observe
    \/ monitor_loop_connect /\ Observe
    \/ monitor_loop_read /\ Observe
    \/ read_db39_step(Sampler, StoreBlocks, MaxStore) /\ Observe
    \/ monitor_loop_process /\ Observe
    \/ monitor_loop_emit /\ Observe
    \/ monitor_loop_sleep /\ Observe
    \/ get_status /\ Observe
    \/ read_db39_step(Query, StoreBlocks, MaxStore) /\ Observe
    \/ get_events({Null, Val(0)}, {Null, Val(1)}) /\ Observe
    \/ get_health /\ Observe

StoreSpec == Init /\ [][StoreNext]_vars

\* a row as log_trip_event writes it for pump d at second ts
TripRow(id, ts, d) ==
    [ id |-> id, timestamp |-> ts, pump_name |-> pump_names[d], pump_id |-> d,
      event_type |-> "TRIP", pressure |-> 0, speed |-> 0,
      description |-> IF d = 1 THEN "Pump 1 tripped - fault detected"
                      ELSE "Pump 2 tripped - fault detected" ]

\* The event tables an earlier run of the program may have left in
\* pump_logs.db: up to MaxTrips trips of one pump, eight to the second; and
\* every table of up to MaxMixed trips of the two pumps within two seconds.
Histories ==
    { [ i \in 1..n |-> TripRow(i, i \div 8, d) ] : n \in 0..MaxTrips, d \in {1, 2} }
    \cup
    UNION { { [ i \in 1..n |-> TripRow(i, t[i], d[i]) ] :
                d \in [1..n -> {1, 2}],
                t \in { u \in [1..n -> 0..1] :
                          \A i \in 1..(n - 1) : u[i] <= u[i + 1] } }
            : n \in 0..MaxMixed }

\* The program started on an event table of Histories, with a controller that
\* answers no read, and the health query.
HealthInit ==
    /\ trip_events \in Histories
    /\ connected = FALSE
    /\ running = FALSE
    /\ prev_pump1_trip = FALSE
    /\ prev_pump2_trip = FALSE
    /\ read_error_count = 0
    /\ last_data = None
    /\ read_count = 0
    /\ plc_connected = FALSE
    /\ now = 0
    /\ pc = (Sampler :> "init") @@ (Query :> "idle") @@ (Subscriber :> "idle")
            @@ (Stopper :> "idle")
    /\ data = (Sampler :> None) @@ (Subscriber :> None)
    /\ ev = Step("main", "init", "", None)
    /\ published = 0
    /\ consec_fails = 0
    /\ raised_as = (Sampler :> 0) @@ (Query :> 0) @@ (Subscriber :> 0)
    /\ third_returned = FALSE
    /\ scenario = 0
    /\ seen_trip = (1 :> FALSE) @@ (2 :> FALSE)
    /\ edges = (1 :> 0) @@ (2 :> 0)
    /\ pattern = 0
    /\ outage = 0
    /\ carried = 0
    /\ ffsff = 0

HealthNext ==
    \/ start /\ Observe
    \/ monitor_loop_while /\ Observe
    \/ monitor_loop_connect /\ Observe
    \/ monitor_loop_read /\ Observe
    \/ read_db39_step(Sampler, PairBlocks, 0) /\ Observe
    \/ monitor_loop_process /\ Observe
    \/ monitor_loop_emit /\ Observe
    \/ monitor_loop_sleep /\ Observe
    \/ get_health /\ Observe

HealthSpec == HealthInit /\ [][HealthNext]_vars

\* The sampling loop and the readers of the stored frame: subscribers that
\* connect and the debug query, over the blocks of PairBlocks.
DebugNext ==
    \/ start /\ Observe
    \/ monitor_loop_while /\ Observe
    \/ monitor_loop_connect /\ Observe
    \/ monitor_loop_read /\ Observe
    \/ read_db39_step(Sampler, PairBlocks, MaxDebug) /\ Observe
    \/ monitor_loop_process /\ Observe
    \/ monitor_loop_emit /\ Observe
    \/ monitor_loop_sleep /\ Observe
    \/ handle_connect /\ Observe
    \/ read_db39_step(Subscriber, PairBlocks, MaxDebug) /\ Observe
    \/ handle_connect_emit /\ Observe
    \/ get_debug /\ Observe

DebugSpec == Init /\ [][DebugNext]_vars

\* The sampling loop on a controller whose session breaks for good: once the
\* loop has counted MaxBroken reads, db_read returns no block any more.  The
\* monitor thread keeps being scheduled: a call in flight returns or raises,
\* a sleep ends, a step that can be taken is taken.
BrokenNext ==
    \/ start /\ Observe
    \/ monitor_loop_while /\ Observe
    \/ monitor_loop_connect /\ Observe
    \/ monitor_loop_read /\ Observe
    \/ read_db39_step(Sampler, PairBlocks, MaxBroken) /\ Observe
    \/ monitor_loop_process /\ Observe
    \/ monitor_loop_emit /\ Observe
    \/ monitor_loop_sleep /\ Observe

BrokenSpec == Init /\ [][BrokenNext]_vars /\ WF_vars(BrokenNext)

\* The event tables of up to MaxRows trips of the two pumps, recorded in the
\* seconds 0..MaxStamp: log_trip_event writes the rows in time order, two
\* trips of one pump are at least two cycles (a second) apart, and the trips
\* of the two pumps in one frame are written in the same second.
QueryTables(n) ==
    { [ i \in 1..n |-> TripRow(i, h[i][1], h[i][2]) ] :
        h \in { g \in [1..n -> (0..MaxStamp) \X {1, 2}] :
                  \A i, j \in 1..n :
                      i < j => /\ g[i][1] <= g[j][1]
                               /\ g[i][2] = g[j][2] => g[i][1] < g[j][1] } }

QueryHistories == UNION { QueryTables(n) : n \in 0..MaxRows }

\* the dates and the pump ids a request for events may carry
QueryDates == { Null } \cup { Val(d) : d \in 0..((MaxStamp \div DayLength) + 1) }
QueryPumps == { Null } \cup { Val(k) : k \in 0..3 }

QueryInit ==
    /\ trip_events \in QueryHistories
    /\ connected = FALSE
    /\ running = FALSE
    /\ prev_pump1_trip = FALSE
    /\ prev_pump2_trip = FALSE
    /\ read_error_count = 0
    /\ last_data = None
    /\ read_count = 0
    /\ plc_connected = FALSE
    /\ now = 0
    /\ pc = (Sampler :> "init") @@ (Query :> "idle") @@ (Subscriber :> "idle")
            @@ (Stopper :> "idle")
    /\ data = (Sampler :> None) @@ (Subscriber :> None)
    /\ ev = Step("main", "init", "", None)
    /\ published = 0
    /\ consec_fails = 0
    /\ raised_as = (Sampler :> 0) @@ (Query :> 0) @@ (Subscriber :> 0)
    /\ third_returned = FALSE
    /\ scenario = 0
    /\ seen_trip = (1 :> FALSE) @@ (2 :> FALSE)
    /\ edges = (1 :> 0) @@ (2 :> 0)
    /\ pattern = 0
    /\ outage = 0
    /\ carried = 0
    /\ ffsff = 0

\* The program started on an event table of QueryHistories, with a
\* controller that cannot be reached (no connect succeeds), and the query for
\* events.
QueryNext ==
    \/ start /\ Observe
    \/ monitor_loop_while /\ Observe
    \/ monitor_loop_connect /\ ev'.out # "returned True" /\ Observe
    \/ monitor_loop_sleep /\ Observe
    \/ get_events(QueryDates, QueryPumps) /\ Observe

QuerySpec == QueryInit /\ [][QueryNext]_vars

\* ------------------------------------------------------------------ claims
\* the frames a state holds: the stored snapshot, the frames the processes
\* hold, and the frame the step just taken returned or emitted
Frames == { last_data, data[Sampler], data[Subscriber], ev.frame } \ { None }

\* the status each of the 8 combinations <<ready, running, trip>> must give
StatusTable ==
    [ t \in BOOLEAN \X BOOLEAN \X BOOLEAN |->
        CASE t = << FALSE, FALSE, FALSE >> -> "UNKNOWN"
          [] t = << TRUE, FALSE, FALSE >> -> "READY"
          [] t = << FALSE, TRUE, FALSE >> -> "RUNNING"
          [] t = << TRUE, TRUE, FALSE >> -> "RUNNING"
          [] t = << FALSE, FALSE, TRUE >> -> "TRIP"
          [] t = << TRUE, FALSE, TRUE >> -> "TRIP"
          [] t = << FALSE, TRUE, TRUE >> -> "TRIP"
          [] t = << TRUE, TRUE, TRUE >> -> "TRIP" ]

\* C1: in every frame decoded from a block, each device's status is the one
\* the table gives for its (ready, running, trip): TRIP if trip, else RUNNING
\* if running, else READY if ready, else UNKNOWN.
C1_StatusByPrecedence ==
    \A f \in Frames :
        f.connected =>
            \A r \in { f.pump1, f.pump2 } :
                r.status = StatusTable[<< r.ready, r.running, r.trip >>]

\* C1 witness: a stored frame whose device 1 has all three flags set (TRIP
\* wins) and whose device 2 has none (UNKNOWN)
C1_Witness ==
    /\ last_data # None
    /\ last_data.connected
    /\ last_data.pump1.ready /\ last_data.pump1.running /\ last_data.pump1.trip
    /\ last_data.pump1.status = "TRIP"
    /\ ~last_data.pump2.ready /\ ~last_data.pump2.running /\ ~last_data.pump2.trip
    /\ last_data.pump2.status = "UNKNOWN"

\* the number of TripEvents recorded for device d
EventsOf(d) == Cardinality({ i \in 1..Len(trip_events) : trip_events[i].pump_id = d })

\* C2 as stated: for each device, the TripEvents recorded are as many as the
\* rising edges of its trip flag over the connected frames the loop processed.
C2_EventPerEdge_AsStated == \A d \in {1, 2} : EventsOf(d) = edges[d]

\* C2 amended: the TripEvents recorded for a device are as many as the rising
\* edges of its trip flag between consecutive processed frames as long as no
\* store write has raised; a store write that raises (it ends monitor_loop)
\* leaves the count at most one short of the edges, never above them.  After
\* exactly the frames false,false,true,true,false,true, all written, device 1
\* has 2 events.
C2_EventPerEdge ==
    /\ \A d \in {1, 2} :
          /\ EventsOf(d) <= edges[d]
          /\ edges[d] - EventsOf(d) <= 1
          /\ pc[Sampler] # "dead" => EventsOf(d) = edges[d]
    /\ pattern = Len(TripPattern) /\ pc[Sampler] # "dead" => EventsOf(1) = 2

\* C2 witness: the loop has processed exactly the six frames of TripPattern
\* and device 1 has its two events
C2_Witness ==
    /\ pattern = Len(TripPattern)
    /\ pc[Sampler] # "dead"
    /\ EventsOf(1) = 2
    /\ edges[1] = 2

\* C3: when the third consecutive failed read of a connected session returns,
\* connected is false and read_error_count is 0; and when that is followed by
\* a connect that succeeds and then a read of the loop that succeeds,
\* read_error_count is 0 and connected is true.
C3_ThirdFailureDisconnects ==
    /\ third_returned => ~connected /\ read_error_count = 0
    /\ scenario = 3 => connected /\ read_error_count = 0

\* C3 witness: third failure, then connect, then a good read has just returned
C3_Witness ==
    /\ scenario = 3
    /\ ev.proc = Sampler /\ ev.out = "read ok"
    /\ connected /\ read_error_count = 0

\* the sampler has come to the end of an iteration of monitor_loop: it is in
\* one of the two sleeps
IterationEnds == pc[Sampler] \in {"sleep", "sleep_reconnect"}

\* C4: at the end of every iteration of the sampling loop exactly one frame
\* has been stored as the latest snapshot and handed to emit; at the end of an
\* iteration whose connect attempt failed that frame is the canonical error
\* frame.
C4_FramePerIteration ==
    IterationEnds =>
        /\ published = 1
        /\ last_data # None
        /\ pc[Sampler] = "sleep_reconnect" => last_data = _get_error_data

\* the canonical error frame, field by field
CanonicalErrorFrame ==
    [ alarm |-> FALSE,
      pump1 |-> [ ready |-> FALSE, running |-> FALSE, trip |-> FALSE,
                  pressure |-> 0, pressure_setpoint |-> 0, speed |-> 0,
                  status |-> "ERROR" ],
      pump2 |-> [ ready |-> FALSE, running |-> FALSE, trip |-> FALSE,
                  pressure |-> 0, pressure_setpoint |-> 0, speed |-> 0,
                  status |-> "ERROR" ],
      connected |-> FALSE ]

\* the failure paths of read_db39 and the error branch of get_status
FailurePaths ==
    { "no session", "raised: counted", "raised: forced", "forced", "error data" }

\* C5: every frame with connected false (stored, held by a process, returned
\* or emitted) is the canonical error frame, and every failure path of
\* read_db39 (no session, read raised, threshold reached) and every use of
\* _get_error_data returns such a frame.
C5_ErrorFrameCanonical ==
    /\ \A f \in Frames : ~f.connected => f = CanonicalErrorFrame
    /\ ev.out \in FailurePaths => ev.frame = CanonicalErrorFrame

\* C5 witness: the read that reached the threshold has returned the canonical
\* error frame to the loop, which holds it
C5_Witness ==
    /\ ev.op = "read_db39" /\ ev.out \in {"raised: forced", "forced"}
    /\ ev.proc = Sampler
    /\ data[Sampler] = CanonicalErrorFrame

\* C6: a cycle of the loop whose frame has connected false records no
\* TripEvent and leaves prev_pump1_trip and prev_pump2_trip as they are; and a
\* cycle whose connected frame shows a device tripped that was tripped in the
\* last connected frame before it records no TripEvent for that device,
\* whatever lay between the two frames.
C6_OutageKeepsTripMemory ==
    [][ Processing =>
          /\ ~data[Sampler].connected =>
                /\ trip_events' = trip_events
                /\ prev_pump1_trip' = prev_pump1_trip
                /\ prev_pump2_trip' = prev_pump2_trip
          /\ data[Sampler].connected =>
                \A d \in {1, 2} :
                    seen_trip[d] /\ TripOf(data[Sampler], d) =>
                        EventsOf(d)' = EventsOf(d) ]_vars

\* C6 witness: device 1 tripped, then an outage with a forced disconnect and a
\* reconnect, then a connected frame with device 1 still tripped has been
\* processed: device 1 has the one event of its one rising edge
C6_Witness ==
    /\ carried = 2
    /\ seen_trip[1] /\ prev_pump1_trip
    /\ edges[1] = 1 /\ EventsOf(1) = 1
    /\ pc[Sampler] = "emit"

\* the step just taken is a read that raised
Raised ==
    /\ ev.op = "read_db39"
    /\ ev.out \in {"raised: counted", "raised: forced", "raised: plc.disconnect called"}

\* C7: a read that succeeds sets read_error_count to 0; a read that raises
\* increments it by one (and a read that takes it to max_read_errors forces a
\* disconnect, which sets it to 0); the counter never exceeds the reads that
\* raised since the last successful read or connect, so a read forces a
\* disconnect only as the third or later of them; and through fail, fail,
\* success, fail, fail (from no failure) every failure is only counted.
C7_CountsConsecutiveFailures ==
    [][ /\ ReadOk => read_error_count' = 0
        /\ ReadRaised /\ ev'.out = "raised: counted" =>
              /\ read_error_count' = read_error_count + 1
              /\ read_error_count' < max_read_errors
        /\ ReadRaised /\ ev'.out = "raised: plc.disconnect called" =>
              /\ read_error_count' = read_error_count + 1
              /\ read_error_count' >= max_read_errors
        /\ ReadRaised /\ ev'.out = "raised: forced" =>
              /\ read_error_count + 1 >= max_read_errors
              /\ read_error_count' = 0
        /\ read_error_count' <= consec_fails'
        /\ ForcedDisconnect => consec_fails' >= max_read_errors
        /\ ReadRaised /\ ffsff' \in 1..5 => ev'.out = "raised: counted" ]_vars

\* C7 witness: fail, fail, success, fail, fail has just ended: the counter is
\* 2 and the monitor is still connected
C7_Witness ==
    /\ ffsff = 5 /\ Raised
    /\ ev.out = "raised: counted"
    /\ read_error_count = 2 /\ connected

\* the step just taken is a return of connect() with False
ConnectReturnedFalse ==
    /\ ev.op = "connect"
    /\ ev.out \in { "returned False", "get_connected raised", "plc.connect raised",
                    "plc.disconnect raised" }

\* C8: plc.connect is called only when the client reports no session (a
\* session it reported was closed first); when connect() returns True,
\* connected is true and read_error_count is 0; when it returns False,
\* connected is false.
C8_ConnectClosesStaleSession ==
    /\ ev.op = "connect"
       /\ ev.out \in {"plc.connect called", "session closed, plc.connect called"}
          => ~plc_connected
    /\ ev.op = "connect" /\ ev.out = "returned True" =>
          connected /\ read_error_count = 0
    /\ ConnectReturnedFalse => ~connected

\* C8 witness: connect() found a live session, closed it, and has called
\* plc.connect
C8_Witness ==
    /\ ev.op = "connect" /\ ev.out = "session closed, plc.connect called"
    /\ ~plc_connected
    /\ pc[Sampler] = "c_conn"

\* C9: when disconnect() has returned (here to stop()), connected is false.
C9_DisconnectLeavesDisconnected ==
    ev.op = "disconnect" /\ pc[Stopper] = "done" => ~connected

\* C10: a store write that raises leaves the sampling loop alive: the loop
\* goes on to emit the frame of that cycle.
C10_StoreFailureNotFatal ==
    ev.out = "store write raised" => pc[Sampler] = "emit"

\* the step being taken is an emit of the sampling loop that raises
EmitRaises == ev'.proc = Sampler /\ ev'.op = "emit" /\ ev'.out = "raise"

\* C11: an emit of the sampling loop that raises leaves the latest snapshot
\* (the frame of this cycle), prev_pump1_trip, prev_pump2_trip and the
\* recorded TripEvents as they are, and the loop goes to its sleep, from which
\* it goes to the next cycle.
C11_EmitFailureKeepsCycle ==
    [][ /\ EmitRaises =>
              /\ pc'[Sampler] = "sleep"
              /\ last_data' = last_data /\ last_data = data[Sampler]
              /\ prev_pump1_trip' = prev_pump1_trip
              /\ prev_pump2_trip' = prev_pump2_trip
              /\ trip_events' = trip_events
              /\ read_count' = read_count
        /\ pc[Sampler] = "sleep" /\ pc'[Sampler] # "sleep" => pc'[Sampler] = "while"
      ]_vars

\* C11 witness: the emit of the first cycle, which recorded the trip of device
\* 1, has raised: the event, the snapshot and the trip memory are there and
\* the loop is in its sleep
C11_Witness ==
    /\ ev.proc = Sampler /\ ev.op = "emit" /\ ev.out = "raise"
    /\ pc[Sampler] = "sleep"
    /\ read_count = 1 /\ EventsOf(1) = 1
    /\ last_data = data[Sampler] /\ last_data.connected /\ last_data.pump1.trip
    /\ prev_pump1_trip

\* C12: a step of get_status or of handle_connect leaves connected and
\* read_error_count as they are, and never calls the forced disconnect.
C12_HandlersWriteNothing ==
    [][ ev'.proc \in {Query, Subscriber} =>
          /\ connected' = connected
          /\ read_error_count' = read_error_count
          /\ ~ForcedDisconnect ]_vars

\* a process at one of these is inside a call of the snap7 client
ClientCallLabels == { "c_disc", "c_conn", "db_read", "rd_disc", "st_disc" }

\* C13: at most one process is inside a client call (plc.connect,
\* plc.disconnect, plc.db_read) at a time.
C13_OneClientCallAtATime ==
    Cardinality({ p \in Procs : pc[p] \in ClientCallLabels }) <= 1

\* C14: stop() calls disconnect() only when the sampling loop has ended; once
\* stop() has been called the loop test ends the loop (no new cycle); and when
\* the loop has ended and stop() has returned, connected is false and the
\* client has no session.
C14_CooperativeShutdown ==
    [][ /\ ev'.proc = Stopper /\ ev'.op = "disconnect" =>
              pc[Sampler] \in {"exit", "dead"}
        /\ pc[Stopper] # "idle" /\ pc[Sampler] = "while" => pc'[Sampler] = "exit"
        /\ pc'[Sampler] = "exit" /\ pc'[Stopper] = "done" =>
              ~connected' /\ ~plc_connected' ]_vars

\* C16: when handle_connect runs and a last frame exists, it hands that frame
\* to emit, whatever the connected flag is.
C16_CatchUpAlways ==
    ev.op = "handle_connect" /\ last_data # None =>
        ev.out = "last_data" /\ ev.frame = last_data

\* C17: a status query made while connected is false returns the canonical
\* error frame at once: it makes no client call and changes nothing of the
\* monitor.
C17_QueryWhileDisconnected ==
    [][ ev'.proc = Query /\ pc[Query] = "idle" /\ ~connected =>
          /\ ev'.op = "get_status" /\ ev'.out = "error data"
          /\ ev'.frame = CanonicalErrorFrame
          /\ pc'[Query] = "idle"
          /\ UNCHANGED << connected, read_error_count, plc_connected, last_data,
                          trip_events >> ]_vars

\* C17 witness: a status query has returned the error frame while the loop is
\* in a connect attempt and no connect has succeeded yet (the loop has stored
\* no frame)
C17_Witness ==
    /\ ev.op = "get_status" /\ ev.out = "error data"
    /\ ev.frame = CanonicalErrorFrame
    /\ pc[Sampler] \in {"c_conn", "sleep_reconnect"}
    /\ last_data = None /\ ~connected /\ ~plc_connected
    /\ pc[Query] = "idle"

\* the sampling loop hands a frame with connected true to emit while the
\* controller is healthy
PublishedConnected ==
    /\ Healthy
    /\ ev.proc = Sampler /\ ev.op = "emit"
    /\ ev.frame.connected

\* C15: from the moment the controller accepts connects and every read
\* succeeds, the running loop eventually publishes a frame with connected
\* true, whatever came before.
C15_ReconnectsEventually ==
    (Healthy /\ ev.op = "tick") ~> PublishedConnected

\* C18: every step (of the loop, of a status query, of an event query, of a
\* health query) leaves every recorded TripEvent in the table with its fields
\* unchanged and removes none; the ids of the table increase in the order of
\* recording; and the steps of the queries leave the table as it is.
C18_AppendOnly ==
    [][ /\ Len(trip_events') >= Len(trip_events)
        /\ SubSeq(trip_events', 1, Len(trip_events)) = trip_events
        /\ \A i \in 1..(Len(trip_events') - 1) :
              trip_events'[i].id < trip_events'[i + 1].id
        /\ ev'.proc \in {Query, Reports} => trip_events' = trip_events ]_vars

\* C18 witness: two events recorded in two cycles, with ids 1 and 2, and an
\* event query has just returned both
C18_Witness ==
    /\ Len(trip_events) = 2
    /\ trip_events[1].id = 1 /\ trip_events[2].id = 2
    /\ trip_events[1].pump_id # trip_events[2].pump_id
    /\ ev.op = "get_events" /\ Len(ev.frame) = 2

\* the timestamps of the TripEvents recorded for device d
TimesOf(d) ==
    { trip_events[i].timestamp :
        i \in { j \in 1..Len(trip_events) : trip_events[j].pump_id = d } }

\* C19: in every answer of the health query, the score of a device with n
\* recorded trips is 100 - 5n when that is positive and 0 otherwise: 100 for
\* n = 0, 80 for n = 4, 0 for every n >= 20; it lies between 0 and 100.
C19_HealthScore ==
    ev.op = "get_health" =>
        \A k \in {1, 2} :
            LET n == EventsOf(k)
                score == ev.frame[k].health_score
            IN  /\ score = IF 100 - 5 * n > 0 THEN 100 - 5 * n ELSE 0
                /\ score >= 0 /\ score <= 100
                /\ n = 0 => score = 100
                /\ n = 4 => score = 80
                /\ n >= 20 => score = 0

\* C19 witness: the health query has answered on a table with 30 trips of
\* device 1 and none of device 2: scores 0 and 100
C19_Witness ==
    /\ ev.op = "get_health"
    /\ EventsOf(1) = 30 /\ EventsOf(2) = 0
    /\ ev.frame[1].health_score = 0
    /\ ev.frame[2].health_score = 100

\* C20: every answer of the health query has two records, for device 1 and
\* then for device 2; in each, total_trips is the number of TripEvents of the
\* device and last_trip is the greatest of their timestamps, or missing when
\* there is none.
C20_HealthRecords ==
    ev.op = "get_health" =>
        /\ DOMAIN ev.frame = 1..2
        /\ \A k \in {1, 2} :
              LET r == ev.frame[k]
              IN  /\ r.pump_id = k
                  /\ r.total_trips = EventsOf(k)
                  /\ IF TimesOf(k) = {}
                     THEN r.last_trip = Null
                     ELSE \E t \in TimesOf(k) :
                             /\ r.last_trip = Val(t)
                             /\ \A u \in TimesOf(k) : u <= t

\* C20 witness: the health query has answered on a table with two trips of
\* device 1 in second 0 and then one of device 2 in second 1
C20_Witness ==
    /\ ev.op = "get_health"
    /\ Len(trip_events) = 3
    /\ ev.frame[1].total_trips = 2 /\ ev.frame[1].last_trip = Val(0)
    /\ ev.frame[2].total_trips = 1 /\ ev.frame[2].last_trip = Val(1)

\* the rows of a query result
RowsOf(result) == { result[k] : k \in 1..Len(result) }

\* the rows of a table that satisfy every filter a request gives
Satisfying(rows, start_date, end_date, pump_id) ==
    { rows[i] : i \in { j \in 1..Len(rows) :
        /\ start_date # Null => rows[j].timestamp >= StartOfDay(start_date[1])
        /\ end_date # Null => rows[j].timestamp <= EndOfDay(end_date[1])
        /\ pump_id # Null => rows[j].pump_id = pump_id[1] } }

\* C21: a query for events returns exactly the recorded events that satisfy
\* every filter it gives (on or after the start date, up to the end of the
\* end date's day, of the given device), each once; an absent filter
\* restricts nothing, and a range without rows gives an empty result.
C21_ExactlyTheFilteredEvents ==
    ev.op = "get_events" =>
        /\ RowsOf(ev.frame) = Satisfying(trip_events, ev.out[1], ev.out[2], ev.out[3])
        /\ Len(ev.frame) = Cardinality(RowsOf(ev.frame))

\* C22: every result of a query for events is newest first: of two rows
\* returned, the one recorded later (the higher id) never comes after the
\* one recorded earlier, two rows of one sampling cycle included.
C22_NewestFirst ==
    ev.op = "get_events" =>
        \A i, j \in 1..Len(ev.frame) :
            i < j => ev.frame[i].id > ev.frame[j].id

\* bit k of a byte is set: the byte is some higher bits, 2^k, and some lower
\* bits
BitSet(byte, k) ==
    \E hi \in 0..(255 \div (2 ^ (k + 1))), lo \in 0..((2 ^ k) - 1) :
        byte = (hi * (2 ^ (k + 1))) + (2 ^ k) + lo

\* C23: the frame of a read has its flags from the fixed positions of the
\* block: alarm = byte 0 bit 0; device A ready, running, trip = byte 0 bits
\* 1, 2, 3; device B running, ready, trip = byte 14 bits 0, 1, 2; and nothing
\* else decides a flag. Byte 0 = 2#00001010 gives alarm false, device A ready,
\* not running, tripped, status TRIP.
C23_FlagsAtFixedBits ==
    (ev.op = "read_db39" /\ ev.out = "read ok") =>
        LET b == ev.bytes
            f == ev.frame
        IN  /\ f.alarm = BitSet(b[0], 0)
            /\ f.pump1.ready = BitSet(b[0], 1)
            /\ f.pump1.running = BitSet(b[0], 2)
            /\ f.pump1.trip = BitSet(b[0], 3)
            /\ f.pump2.running = BitSet(b[14], 0)
            /\ f.pump2.ready = BitSet(b[14], 1)
            /\ f.pump2.trip = BitSet(b[14], 2)
            /\ b[0] = 10 =>
                  /\ ~f.alarm
                  /\ f.pump1.ready /\ ~f.pump1.running /\ f.pump1.trip
                  /\ f.pump1.status = "TRIP"

C23_Witness ==
    /\ ev.op = "read_db39" /\ ev.out = "read ok"
    /\ ev.bytes[0] = 10
    /\ ~ev.frame.alarm
    /\ ev.frame.pump1.status = "TRIP"

\* a read of the sampling loop has failed
SamplerReadFailed ==
    /\ ev.proc = Sampler /\ ev.op = "read_db39"
    /\ ev.out \in {"raised: counted", "raised: forced", "forced"}

\* C24: once the third consecutive failed read has returned, the sampling
\* loop makes no read before a connect has succeeded, and the plc.connect of
\* its connect attempts is called on a closed session; so if the reads of the
\* loop fail for ever, the supervisor is disconnected again and again.
C24_BrokenSessionBounded ==
    /\ [][ (scenario = 1 /\ ev'.proc = Sampler) =>
              /\ ev'.op # "read_db39"
              /\ ev'.out \in {"plc.connect called", "session closed, plc.connect called"}
                    => ~plc_connected' ]_vars
    /\ ([]<>SamplerReadFailed) => ([]<>(~connected))

C24_Witness ==
    /\ scenario = 1
    /\ ev.proc = Sampler /\ ev.op = "connect"
    /\ ev.out \in {"plc.connect called", "session closed, plc.connect called"}
    /\ ~plc_connected
    /\ pc[Sampler] = "c_conn"

\* the outcomes with which connect() returns False
ConnectFailures ==
    { "returned False", "get_connected raised", "plc.connect raised",
      "plc.disconnect raised" }

SleepLabels == { "sleep", "sleep_reconnect" }

\* C25: in the sampling loop a failed connect goes to the reconnect sleep and
\* to nothing else, and a connect attempt starts only after a sleep has ended
\* (or at the start of the thread); an iteration starts only when a sleep has
\* ended, and the end of a sleep ends the iteration, so every iteration
\* passes through exactly one sleep: the reconnect sleep after a failed
\* connect, the cycle sleep otherwise.
C25_NoBusyLoop ==
    [][ /\ (ev'.op = "connect" /\ ev'.out \in ConnectFailures)
              => pc'[Sampler] = "sleep_reconnect"
        /\ (ev'.op = "connect" /\ pc[Sampler] = "while")
              => ev.op \in {"start", "sleep"}
        /\ (pc'[Sampler] = "while" /\ pc[Sampler] # "while")
              => /\ pc[Sampler] \in SleepLabels \cup {"init"}
                 /\ ev'.op \in {"start", "sleep"}
        /\ (pc[Sampler] \in SleepLabels /\ pc'[Sampler] # pc[Sampler])
              => pc'[Sampler] = "while" /\ ev'.op = "sleep"
        /\ (pc'[Sampler] \in SleepLabels /\ pc[Sampler] # pc'[Sampler])
              => (pc'[Sampler] = "sleep_reconnect"
                    <=> (ev'.op = "connect" /\ ev'.out \in ConnectFailures))
      ]_vars

C25_Witness ==
    /\ ev.proc = Sampler /\ ev.op = "sleep" /\ ev.out = "sleep_reconnect"
    /\ pc[Sampler] = "while"
    /\ ~connected

\* the rows a step has added to the store
NewRows == { trip_events'[i] : i \in (Len(trip_events) + 1)..Len(trip_events') }

CarriesFrame(r, f, d) ==
    /\ r.pump_id = d
    /\ r.pump_name = (IF d = 1 THEN "LINE 7 MIXER" ELSE "LINE 7 AHU/SYRUP ROOM")
    /\ r.event_type = "TRIP"
    /\ r.pressure = (IF d = 1 THEN f.pump1.pressure ELSE f.pump2.pressure)
    /\ r.speed = (IF d = 1 THEN f.pump1.speed ELSE f.pump2.speed)

\* C27: every TripEvent the loop records while it processes a frame is of a
\* device whose trip flag rose in that frame and carries that device's id and
\* name, the type TRIP and the device's pressure and speed of that frame; and
\* after the check the previous-trip memory of both devices holds the trip
\* flags of the frame, whether or not an edge was found.
C27_EventCarriesFrame ==
    [][ ProcessingConnected =>
          LET f == data[Sampler]
          IN  /\ \A r \in NewRows :
                    \E d \in {1, 2} :
                        /\ TripOf(f, d)
                        /\ ~(IF d = 1 THEN prev_pump1_trip ELSE prev_pump2_trip)
                        /\ CarriesFrame(r, f, d)
              /\ prev_pump1_trip' = f.pump1.trip
              /\ prev_pump2_trip' = f.pump2.trip
      ]_vars

\* C28: the sampling loop calls read only when its connected flag is true and
\* starts a connect attempt only when the flag is false; the flag becomes
\* true only by a connect of the loop that succeeded and every disconnect
\* that is recorded makes it false, so a read of the loop follows a
\* successful connect with no disconnect recorded in between.
C28_LoopFollowsConnectionState ==
    [][ /\ (ev'.proc = Sampler /\ ev'.op = "read_db39" /\ pc[Sampler] = "read")
              => connected
        /\ (ev'.proc = Sampler /\ ev'.op = "connect" /\ pc[Sampler] = "while")
              => ~connected
        /\ (connected' /\ ~connected)
              => (ev'.proc = Sampler /\ ev'.op = "connect" /\ ev'.out = "returned True")
        /\ \/ ev'.op = "read_db39" /\ ev'.out \in {"raised: forced", "forced", "no session"}
           \/ ev'.op = "disconnect" /\ ev'.out = "returned"
           => ~connected'
      ]_vars

C28_Witness ==
    /\ scenario = 2
    /\ ev.proc = Sampler /\ ev.op = "read_db39" /\ ev.out = "db_read called"
    /\ connected

\* the frames a single read can return
WholeFrames ==
    { parse_db39(b) : b \in Blocks \cup TripBlocks \cup PairBlocks \cup StoreBlocks }
    \cup { CanonicalErrorFrame }

\* C29: the stored snapshot is absent or one whole frame of a single read; it
\* is replaced only by the loop, by the whole frame of its read; the debug
\* query returns the snapshot as it is; and the frame a subscriber's connect
\* has taken stays as it was taken until it is emitted.
C29_NoTornFrame ==
    [][ /\ last_data' = None \/ last_data' \in WholeFrames
        /\ last_data' # last_data => (Processing /\ last_data' = data[Sampler])
        /\ ev'.op = "get_debug" => ev'.frame.last_data = last_data
        /\ (ev'.proc = Subscriber /\ ev'.op = "handle_connect" /\ ev'.out = "last_data")
              => (ev'.frame = last_data /\ data'[Subscriber] = last_data)
        /\ (pc[Subscriber] = "h_emit" /\ pc'[Subscriber] = "h_emit")
              => data'[Subscriber] = data[Subscriber]
        /\ (ev'.proc = Subscriber /\ ev'.op = "emit")
              => (ev'.frame = data[Subscriber] /\ ev'.frame \in WholeFrames)
      ]_vars

C29_Witness ==
    /\ pc[Subscriber] = "h_emit"
    /\ ev.proc = Sampler /\ ev.op = "monitor_loop"
    /\ data[Subscriber] \in WholeFrames
    /\ last_data \in WholeFrames
    /\ data[Subscriber] # last_data

\* the rows a step has added to the store for device d
NewRowsOf(d) == { r \in NewRows : r.pump_id = d }

ReadInProgress == \E p \in {Sampler, Query, Subscriber} : pc[p] \in {"db_read", "rd_disc"}

\* C31: whenever no read is in progress, read_error_count is 0, 1 or 2: it
\* is never negative and never at the threshold between operations.
C31_CounterBelowThreshold ==
    /\ read_error_count >= 0
    /\ ~ReadInProgress => read_error_count \in 0..2

C31_Witness ==
    /\ ~ReadInProgress
    /\ read_error_count = 2
    /\ connected
    /\ ev.op = "read_db39" /\ ev.out = "raised: counted"

\* the statuses of a frame that was read from the controller
LiveStatuses == { "TRIP", "RUNNING", "READY", "UNKNOWN" }

\* C32: in every frame a device's status is ERROR exactly when the frame's
\* connected field is false: a connected frame has both statuses among TRIP,
\* RUNNING, READY, UNKNOWN, as its own flags decide, and a frame that is not
\* connected has ERROR for both devices.
C32_ErrorIffDisconnected ==
    \A f \in Frames :
        /\ \A r \in { f.pump1, f.pump2 } : (r.status = "ERROR") <=> ~f.connected
        /\ f.connected =>
              \A r \in { f.pump1, f.pump2 } :
                  /\ r.status \in LiveStatuses
                  /\ r.status = StatusTable[<< r.ready, r.running, r.trip >>]

C32_Witness ==
    /\ last_data # None /\ ~last_data.connected
    /\ last_data.pump1.status = "ERROR" /\ last_data.pump2.status = "ERROR"
    /\ data[Sampler] # None /\ data[Sampler].connected
    /\ data[Sampler].pump1.status = "TRIP" /\ data[Sampler].pump2.status = "UNKNOWN"

\* the labels of a sampling cycle after its read has returned, up to the
\* loop test of the next cycle
AfterReadLabels == { "process", "emit", "sleep", "while" }

\* C33: a read of the loop that fails as the first or the second in a row
\* returns the canonical error frame without a client call to disconnect or
\* connect and leaves the connected flag true; the loop stores and emits that
\* frame, stays connected through the cycle and goes from its next loop test
\* to a read again.
C33_StaysConnectedBelowThreshold ==
    [][ /\ (ev'.proc = Sampler /\ ReadRaised /\ consec_fails \in {0, 1})
              => /\ ev'.out = "raised: counted"
                 /\ connected /\ connected'
                 /\ read_error_count' = consec_fails + 1
                 /\ pc'[Sampler] = "process"
                 /\ data'[Sampler] = CanonicalErrorFrame
        /\ (connected /\ data[Sampler] = CanonicalErrorFrame
               /\ pc[Sampler] \in AfterReadLabels \cup {"read"})
              => /\ ev'.op \notin {"connect", "disconnect"}
                 /\ pc[Sampler] \in AfterReadLabels => connected'
                 /\ pc[Sampler] = "process" => last_data' = CanonicalErrorFrame
                 /\ pc[Sampler] = "emit" => ev'.frame = CanonicalErrorFrame
                 /\ pc[Sampler] = "while" => pc'[Sampler] = "read"
                 /\ pc[Sampler] = "read" => ev'.op = "read_db39"
      ]_vars

C33_Witness ==
    /\ consec_fails = 2
    /\ read_error_count = 2
    /\ connected
    /\ last_data = CanonicalErrorFrame
    /\ ev.proc = Sampler /\ ev.op = "read_db39" /\ ev.out = "db_read called"

\* C34: a read_db39 that finds no live session calls no db_read, sets the
\* connected flag false, leaves read_error_count as it is and returns the
\* canonical error frame; the loop stays disconnected through the rest of
\* the cycle and goes from its next loop test to a connect attempt.
C34_NoSessionRead ==
    [][ /\ (ev'.op = "read_db39" /\ ev'.out = "no session")
              => /\ ~plc_connected
                 /\ ~connected'
                 /\ read_error_count' = read_error_count
                 /\ ev'.frame = CanonicalErrorFrame
                 /\ pc'[ev'.proc] # "db_read"
        /\ (ev'.op = "read_db39" /\ pc[ev'.proc] \notin {"db_read", "rd_disc"}
               /\ ~plc_connected /\ ev'.out \notin {"raised: counted", "raised: forced"})
              => ev'.out = "no session"
        /\ (~connected /\ pc[Sampler] \in AfterReadLabels)
              => /\ ~connected'
                 /\ pc[Sampler] = "while" => ev'.op = "connect"
                 /\ pc[Sampler] # "while" => ev'.op \in {"monitor_loop", "emit", "sleep"}
      ]_vars

C34_Witness ==
    /\ ev.proc = Sampler /\ ev.op = "connect" /\ pc[Sampler] = "c_conn"
    /\ last_data = CanonicalErrorFrame
    /\ read_error_count = 1
    /\ consec_fails = 1

\* C35 as stated: a device whose trip flag is true in the first connected
\* frame the loop processes gets exactly one TripEvent for that frame, and a
\* device gets no event for a frame in which its flag is false or was true
\* in the connected frame processed before.
C35_FirstFrameTrip_AsStated ==
    [][ ProcessingConnected =>
          \A d \in {1, 2} :
              /\ (read_count = 0 /\ TripOf(data[Sampler], d))
                    => Cardinality(NewRowsOf(d)) = 1
              /\ (seen_trip[d] \/ ~TripOf(data[Sampler], d))
                    => NewRowsOf(d) = {}
      ]_vars

\* C35 amended: the previous-trip memory starts false, so a device whose trip
\* flag is true in the first connected frame the loop processes gets exactly
\* one TripEvent for that frame when the store writes of the frame return
\* and at most one when one of them raises; and a device gets no event for a
\* frame in which its flag is false or was true in the connected frame
\* processed before.
C35_FirstFrameTrip ==
    [][ ProcessingConnected =>
          \A d \in {1, 2} :
              /\ (read_count = 0 /\ TripOf(data[Sampler], d))
                    => /\ ~prev_pump1_trip /\ ~prev_pump2_trip
                       /\ Cardinality(NewRowsOf(d)) <= 1
                       /\ ev'.out = "processed" => Cardinality(NewRowsOf(d)) = 1
              /\ (seen_trip[d] \/ ~TripOf(data[Sampler], d))
                    => NewRowsOf(d) = {}
      ]_vars

\* C35 witness: the first connected frame showed device 1 tripped and got its
\* one event
C35_Witness ==
    /\ read_count = 1
    /\ ev.proc = Sampler /\ ev.out = "processed"
    /\ ev.frame.pump1.trip
    /\ prev_pump1_trip
    /\ EventsOf(1) = 1

\* the trip flag of device d rises in the frame the loop is processing
Rises(d) ==
    /\ TripOf(data[Sampler], d)
    /\ ~(IF d = 1 THEN prev_pump1_trip ELSE prev_pump2_trip)

\* the devices of the rows a step has added, in the order of the rows
NewDevices == [ i \in 1..(Len(trip_events') - Len(trip_events)) |->
                  trip_events'[Len(trip_events) + i].pump_id ]

\* C36 as stated: a frame records one event for each device whose flag rises
\* in it and none for a device whose flag does not; when both rise, two
\* events, device 1's before device 2's.
C36_IndependentEdges_AsStated ==
    [][ ProcessingConnected =>
          /\ \A d \in {1, 2} :
                Cardinality(NewRowsOf(d)) = IF Rises(d) THEN 1 ELSE 0
          /\ (Rises(1) /\ Rises(2)) => NewDevices = << 1, 2 >>
      ]_vars

\* C36 amended: a frame records an event only for a device whose own flag
\* rises in it, never more than one, and exactly one for each such device
\* when the store writes of the frame return, whatever the other device's
\* flag does; when both rise and the writes return, two events, device 1's
\* before device 2's; a write that raises leaves out its own event and the
\* events after it.
C36_IndependentEdges ==
    [][ ProcessingConnected =>
          /\ \A d \in {1, 2} :
                /\ NewRowsOf(d) # {} => Rises(d)
                /\ Cardinality(NewRowsOf(d)) <= 1
                /\ ev'.out = "processed" =>
                      Cardinality(NewRowsOf(d)) = IF Rises(d) THEN 1 ELSE 0
          /\ (Rises(1) /\ Rises(2) /\ ev'.out = "processed")
                => NewDevices = << 1, 2 >>
          /\ NewDevices \in { << >>, << 1 >>, << 2 >>, << 1, 2 >> }
          /\ ev'.out = "store write raised" => NewDevices \in { << >>, << 1 >> }
      ]_vars

\* C36 witness: device 2's flag rose while device 1 stayed tripped (one event
\* more for device 2 only), after a frame in which both rose
C36_Witness ==
    /\ Len(trip_events) = 3
    /\ trip_events[1].pump_id = 1 /\ trip_events[2].pump_id = 2
    /\ trip_events[1].timestamp = trip_events[2].timestamp
    /\ trip_events[3].pump_id = 2
    /\ prev_pump1_trip /\ prev_pump2_trip
    /\ edges[1] = 1

\* the sampler is between two cycles, or has not started, or has ended
NoCycleInProgress ==
    pc[Sampler] \in { "init", "while", "sleep", "sleep_reconnect", "exit", "dead" }

\* C37: in every state in which the connected flag is false and no sampler
\* cycle is in progress, the stored frame is absent or has connected false.
C37_SnapshotAgreesWithFlag ==
    (~connected /\ NoCycleInProgress) =>
        (last_data = None \/ ~last_data.connected)

====
